---------------------------- MODULE Spec2Model ----------------------------
(***************************************************************************)
(* Model of rust-life.                                                     *)
(*                                                                         *)
(* src/src/life.rs: LifeWorld keeps a sparse hash map from coordinates to  *)
(* LifeCell records (alive flag, cached count of live Moore neighbours)    *)
(* and a generations counter.  raise / lower / toggle go through set_cell, *)
(* evolve classifies every stored cell and then applies the collected      *)
(* deltas with set_cell.                                                   *)
(* src/src/main.rs: State::handle_command, Program::run and handle_input.  *)
(* src/src/ui.rs: the terminal lock behind Screen.                         *)
(*                                                                         *)
(* Specifications: Spec (the world under direct calls), SpecEdge (calls at *)
(* the edges of the i32 range), SpecRandom (worlds seeded at random and    *)
(* their generations), SpecDense (one call on a sparse or a dense world),  *)
(* SpecState (commands given to a State), SpecRun (the run loop), SpecTerm *)
(* (calls on the terminal, one after the other), SpecRelease               *)
(* (release_terminal on two threads).                                      *)
(***************************************************************************)
EXTENDS Integers, Sequences, FiniteSets, TLC

(***************************************************************************)
(* Bounds of the model.                                                    *)
(***************************************************************************)
\* the clock of the run loop stops at MaxTime ms
MaxTime == 6
\* Program.timestep_ms is drawn from 0..MaxTimestep
MaxTimestep == 2
\* Program.duration_ms is drawn from 0..MaxDuration
MaxDuration == 4
\* at most MaxTermCalls calls are made on the terminal
MaxTermCalls == 5
\* at most MaxScreens Screen values are alive at a time
MaxScreens == 2
\* the State driver gives at most MaxCmds commands
MaxCmds == 10
\* LifePattern::Random(size) is built for size in 0..MaxSize
MaxSize == 4
\* at most MaxSteps calls (raise, lower, toggle, evolve) follow construction
MaxSteps == 4
\* evolve explores every order of its deltas when there are at most MaxPerm
\* of them, and the ascending and the descending order otherwise
MaxPerm == 4
\* the dense worlds have at most MaxHoles dead cells in the 3x3 block, the
\* sparse ones at most MaxHoles alive cells
MaxHoles == 2

(***************************************************************************)
(* Machine integers.                                                       *)
(***************************************************************************)
U8Mod == 256
I32Max == 2147483647
I32Min == -I32Max - 1

\* x + d on i32 as a release build computes it (two's complement wrap), for
\* d in -1..1, written so that no intermediate value leaves the i32 range
AddI32(x, d) ==
    IF d > 0 /\ x > I32Max - d THEN I32Min + (x - I32Max) + (d - 1)
    ELSE IF d < 0 /\ x < I32Min - d THEN I32Max + (x - I32Min) + (d + 1)
    ELSE x + d

\* num_neighbors += 1 on u8, wrapping as a release build does (a debug build
\* panics where the value leaves 0..255)
IncU8(n) == (n + 1) % U8Mod

\* mutant: the decrement is forgotten
DecU8_Forgotten(n) == n

\* num_neighbors -= 1 on u8, wrapping
DecU8(n) == (n + U8Mod - 1) % U8Mod

(***************************************************************************)
(* LifeCell and the hash map.                                              *)
(***************************************************************************)
\* LifeCell::new(alive)
LifeCell(alive) == [alive |-> alive, num_neighbors |-> 0]

\* FxHashMap::default()
EmptyMap == [p \in {} |-> LifeCell(FALSE)]

\* insert of key p with value c (p not yet a key, or overwritten)
Insert(w, p, c) == [q \in (DOMAIN w) \cup {p} |-> IF q = p THEN c ELSE w[q]]

\* occupied.remove()
Remove(w, p) == [q \in (DOMAIN w) \ {p} |-> w[q]]

\* LifeWorld::get : Option<bool>
None == <<"None">>
Some(b) == <<"Some", b>>
get(w, x, y) == IF <<x, y>> \in DOMAIN w THEN Some(w[<<x, y>>].alive) ELSE None

\* LifeWorld::alive : get(x, y).unwrap_or(false)
alive(w, x, y) == IF get(w, x, y) = None THEN FALSE ELSE get(w, x, y)[2]

\* mutant: the test "if cell.alive" is missing, every stored cell is counted
num_alive_CountsStored(w) == Cardinality(DOMAIN w)

\* LifeWorld::num_alive
num_alive(w) == Cardinality({p \in DOMAIN w : w[p].alive})

(***************************************************************************)
(* set_cell.                                                               *)
(***************************************************************************)
\* mutant: the loops written with the exclusive ranges -1..1
Offsets_ExclusiveRange == << <<-1, -1>>, <<0, -1>>, <<-1, 0>> >>

\* the (dx, dy) pairs in the order of the loops "for dy in -1..=1 { for dx
\* in -1..=1 {" with (0, 0) skipped
Offsets == << <<-1, -1>>, <<0, -1>>, <<1, -1>>,
              <<-1,  0>>,            <<1,  0>>,
              <<-1,  1>>, <<0,  1>>, <<1,  1>> >>

\* mutant: the two branches swapped, a raise decrements and a lower increments
NeighborStep_SwappedBranches(w, x, y, a, new, d) ==
    LET n  == <<AddI32(x, d[1]), AddI32(y, d[2])>>
        w1 == IF new /\ alive(w, n[1], n[2]) /\ <<x, y>> \in DOMAIN w
              THEN [w EXCEPT ![<<x, y>>].num_neighbors = IncU8(@)]
              ELSE w
    IN  IF ~a
        THEN LET w2 == IF n \in DOMAIN w1 THEN w1 ELSE Insert(w1, n, LifeCell(FALSE))
             IN  [w2 EXCEPT ![n].num_neighbors = IncU8(@)]
        ELSE IF n \in DOMAIN w1
             THEN LET w2 == [w1 EXCEPT ![n].num_neighbors = DecU8(@)]
                  IN  IF w2[n].num_neighbors = 0 /\ ~w2[n].alive
                      THEN Remove(w2, n)
                      ELSE w2
             ELSE w1

\* the body of the inner loop for one (dx, dy)
NeighborStep(w, x, y, a, new, d) ==
    LET n  == <<AddI32(x, d[1]), AddI32(y, d[2])>>
        \* if new && self.alive(x + dx, y + dy): entry((x, y)).and_modify(+= 1)
        w1 == IF new /\ alive(w, n[1], n[2]) /\ <<x, y>> \in DOMAIN w
              THEN [w EXCEPT ![<<x, y>>].num_neighbors = IncU8(@)]
              ELSE w
    IN  IF a
        THEN \* entry(n).or_insert(LifeCell::new(false)).num_neighbors += 1
             LET w2 == IF n \in DOMAIN w1 THEN w1 ELSE Insert(w1, n, LifeCell(FALSE))
             IN  [w2 EXCEPT ![n].num_neighbors = IncU8(@)]
        ELSE IF n \in DOMAIN w1
             THEN LET w2 == [w1 EXCEPT ![n].num_neighbors = DecU8(@)]
                  IN  IF w2[n].num_neighbors = 0 /\ ~w2[n].alive
                      THEN Remove(w2, n)
                      ELSE w2
             ELSE w1

RECURSIVE NeighborLoop(_, _, _, _, _, _)
NeighborLoop(w, x, y, a, new, i) ==
    IF i > Len(Offsets) THEN w
    ELSE NeighborLoop(NeighborStep(w, x, y, a, new, Offsets[i]), x, y, a, new, i + 1)

\* mutant: the target is removed when dead, whatever its count
TrimCell_IgnoresCount(w, x, y) ==
    IF <<x, y>> \in DOMAIN w /\ ~w[<<x, y>>].alive
    THEN Remove(w, <<x, y>>)
    ELSE w

\* the final match: the target is removed when dead with a zero count
TrimCell(w, x, y) ==
    IF <<x, y>> \in DOMAIN w
       /\ w[<<x, y>>].num_neighbors = 0 /\ ~w[<<x, y>>].alive
    THEN Remove(w, <<x, y>>)
    ELSE w

\* mutant: a vacant entry is inserted and never dirty
set_cell_VacantNotDirty(w, x, y, a) ==
    LET p        == <<x, y>>
        occupied == p \in DOMAIN w
        dirty    == IF occupied THEN w[p].alive # a ELSE FALSE
        new      == IF occupied THEN FALSE ELSE a
        w1       == IF occupied THEN [w EXCEPT ![p].alive = a]
                    ELSE Insert(w, p, LifeCell(a))
    IN  IF ~dirty THEN w1
        ELSE TrimCell(NeighborLoop(w1, x, y, a, new, 1), x, y)

\* mutant: an occupied entry is dirty whatever its alive flag was
set_cell_OccupiedIsDirty(w, x, y, a) ==
    LET p        == <<x, y>>
        occupied == p \in DOMAIN w
        dirty    == IF occupied THEN TRUE ELSE a
        new      == IF occupied THEN FALSE ELSE a
        w1       == IF occupied THEN [w EXCEPT ![p].alive = a]
                    ELSE Insert(w, p, LifeCell(a))
    IN  IF ~dirty THEN w1
        ELSE TrimCell(NeighborLoop(w1, x, y, a, new, 1), x, y)

set_cell(w, x, y, a) ==
    LET p        == <<x, y>>
        occupied == p \in DOMAIN w
        dirty    == IF occupied THEN w[p].alive # a ELSE a
        new      == IF occupied THEN FALSE ELSE a
        w1       == IF occupied THEN [w EXCEPT ![p].alive = a]
                    ELSE Insert(w, p, LifeCell(a))
    IN  IF ~dirty THEN w1
        ELSE TrimCell(NeighborLoop(w1, x, y, a, new, 1), x, y)

raise(w, x, y) == set_cell(w, x, y, TRUE)
lower(w, x, y) == set_cell(w, x, y, FALSE)
\* mutant: toggle raises whatever the cell was
toggle_AlwaysRaise(w, x, y) == set_cell(w, x, y, TRUE)

\* mutant: toggle without the negation
toggle_NoNegation(w, x, y) == set_cell(w, x, y, alive(w, x, y))

toggle(w, x, y) == set_cell(w, x, y, ~alive(w, x, y))

\* x + d leaves the i32 range: a debug build panics ("attempt to add with
\* overflow"), a release build wraps
Overflows(x, d) == (d > 0 /\ x > I32Max - d) \/ (d < 0 /\ x < I32Min - d)

\* the iterations of the neighbour loops in which x + dx or y + dy overflows
Wraps(x, y) ==
    {i \in 1..Len(Offsets) :
        Overflows(x, Offsets[i][1]) \/ Overflows(y, Offsets[i][2])}

\* set_cell(x, y, a) reaches the neighbour loops
Dirty(w, x, y, a) ==
    IF <<x, y>> \in DOMAIN w THEN w[<<x, y>>].alive # a ELSE a

\* set_cell(x, y, a) evaluates an overflowing x + dx or y + dy
Overflowing(w, x, y, a) == Dirty(w, x, y, a) /\ Wraps(x, y) # {}

\* the neighbour loops up to, and without, iteration stop
RECURSIVE NeighborPrefix(_, _, _, _, _, _, _)
NeighborPrefix(w, x, y, a, new, i, stop) ==
    IF i >= stop \/ i > Len(Offsets) THEN w
    ELSE NeighborPrefix(NeighborStep(w, x, y, a, new, Offsets[i]),
                        x, y, a, new, i + 1, stop)

\* the map a debug build leaves behind when set_cell panics: the entry of
\* (x, y) is written and the loops ran up to the first overflowing iteration
set_cell_panic(w, x, y, a) ==
    LET p        == <<x, y>>
        occupied == p \in DOMAIN w
        new      == IF occupied THEN FALSE ELSE a
        w1       == IF occupied THEN [w EXCEPT ![p].alive = a]
                    ELSE Insert(w, p, LifeCell(a))
        stop     == CHOOSE i \in Wraps(x, y) : \A j \in Wraps(x, y) : i <= j
    IN  NeighborPrefix(w1, x, y, a, new, 1, stop)

(***************************************************************************)
(* evolve.                                                                 *)
(***************************************************************************)
\* mutant: a live cell survives with 3 neighbours only
Classify_SurviveOnThree(w, p) ==
    IF w[p].alive
    THEN IF w[p].num_neighbors = 3 THEN {} ELSE {<<FALSE, p>>}
    ELSE IF w[p].num_neighbors = 3 THEN {<<TRUE, p>>} ELSE {}

\* mutant: a dead cell is born with 2 or 3 neighbours
Classify_BirthOnTwo(w, p) ==
    IF w[p].alive
    THEN IF w[p].num_neighbors \in {2, 3} THEN {} ELSE {<<FALSE, p>>}
    ELSE IF w[p].num_neighbors \in {2, 3} THEN {<<TRUE, p>>} ELSE {}

\* the classification of one stored cell: the delta it pushes, if any
Classify(w, p) ==
    IF w[p].alive
    THEN IF w[p].num_neighbors \in {2, 3} THEN {} ELSE {<<FALSE, p>>}
    ELSE IF w[p].num_neighbors = 3 THEN {<<TRUE, p>>} ELSE {}

\* the deltas collected by the first loop; the hash map fixes no order
Deltas(w) == UNION {Classify(w, p) : p \in DOMAIN w}

\* the second loop, "for (change, pos) in deltas", for one order of deltas
RECURSIVE ApplySeq(_, _)
ApplySeq(w, ds) ==
    IF ds = <<>> THEN w
    ELSE ApplySeq(set_cell(w, Head(ds)[2][1], Head(ds)[2][2], Head(ds)[1]), Tail(ds))

\* the second loop over every order of the deltas at once.  S is a set of
\* pairs <<world so far, deltas still to apply>>.
RECURSIVE ApplyDeltas(_)
ApplyDeltas(S) ==
    IF \A s \in S : s[2] = {} THEN {s[1] : s \in S}
    ELSE ApplyDeltas(UNION {
            IF s[2] = {} THEN {s}
            ELSE {<<set_cell(s[1], d[2][1], d[2][2], d[1]), s[2] \ {d}>> : d \in s[2]}
            : s \in S})

PosLess(p, q) == p[1] < q[1] \/ (p[1] = q[1] /\ p[2] < q[2])

RECURSIVE Ascending(_)
Ascending(D) ==
    IF D = {} THEN <<>>
    ELSE LET m == CHOOSE d \in D : \A e \in D \ {d} : PosLess(d[2], e[2])
         IN  <<m>> \o Ascending(D \ {m})

Reverse(s) == [i \in 1..Len(s) |-> s[Len(s) + 1 - i]]

\* mutant: the births are classified after the deaths have been applied
evolve_DeathsThenBirths(w) ==
    LET w1 == ApplySeq(w, Ascending({d \in Deltas(w) : ~d[1]}))
    IN  {ApplySeq(w1, Ascending({d \in Deltas(w1) : d[1]}))}

\* the worlds evolve can produce: the hash map's iteration order decides the
\* order of the deltas
evolve(w) ==
    LET D == Deltas(w)
    IN  IF Cardinality(D) <= MaxPerm
        THEN ApplyDeltas({<<w, D>>})
        ELSE {ApplySeq(w, Ascending(D)), ApplySeq(w, Reverse(Ascending(D)))}

(***************************************************************************)
(* The states inside set_cell and inside the second loop of evolve.        *)
(***************************************************************************)
\* every stored num_neighbors is a count of at most 8 neighbours; a u8 that
\* was decremented at 0 holds 255 in a release build
InRange(w) == \A p \in DOMAIN w : w[p].num_neighbors \in 0..8

\* the map after each iteration of the neighbour loops, from iteration i on
RECURSIVE NeighborLoopInRange(_, _, _, _, _, _)
NeighborLoopInRange(w, x, y, a, new, i) ==
    IF i > Len(Offsets) THEN TRUE
    ELSE LET v == NeighborStep(w, x, y, a, new, Offsets[i])
         IN  InRange(v) /\ NeighborLoopInRange(v, x, y, a, new, i + 1)

\* the map after the entry match and after each iteration of the loops of
\* set_cell(x, y, a); the final match removes an entry or nothing
SetCellInRange(w, x, y, a) ==
    LET p        == <<x, y>>
        occupied == p \in DOMAIN w
        new      == IF occupied THEN FALSE ELSE a
        w1       == IF occupied THEN [w EXCEPT ![p].alive = a]
                    ELSE Insert(w, p, LifeCell(a))
    IN  /\ InRange(w1)
        /\ Dirty(w, x, y, a) => NeighborLoopInRange(w1, x, y, a, new, 1)

\* the states inside every set_cell of the second loop, for one order
RECURSIVE ApplySeqInRange(_, _)
ApplySeqInRange(w, ds) ==
    IF ds = <<>> THEN TRUE
    ELSE /\ SetCellInRange(w, Head(ds)[2][1], Head(ds)[2][2], Head(ds)[1])
         /\ ApplySeqInRange(set_cell(w, Head(ds)[2][1], Head(ds)[2][2], Head(ds)[1]),
                            Tail(ds))

\* the same for every order of the deltas at once; S as in ApplyDeltas
RECURSIVE ApplyDeltasInRange(_)
ApplyDeltasInRange(S) ==
    IF \A s \in S : s[2] = {} THEN TRUE
    ELSE /\ \A s \in S : \A d \in s[2] : SetCellInRange(s[1], d[2][1], d[2][2], d[1])
         /\ ApplyDeltasInRange(UNION {
               IF s[2] = {} THEN {s}
               ELSE {<<set_cell(s[1], d[2][1], d[2][2], d[1]), s[2] \ {d}>> : d \in s[2]}
               : s \in S})

\* the states between and inside the set_cell calls of evolve, for the orders
\* of the deltas that evolve(w) explores
EvolveInRange(w) ==
    LET D == Deltas(w)
    IN  IF Cardinality(D) <= MaxPerm
        THEN ApplyDeltasInRange({<<w, D>>})
        ELSE /\ ApplySeqInRange(w, Ascending(D))
             /\ ApplySeqInRange(w, Reverse(Ascending(D)))

(***************************************************************************)
(* LifeWorld::from.                                                        *)
(***************************************************************************)
RECURSIVE RaiseAll(_, _)
RaiseAll(w, cells) ==
    IF cells = <<>> THEN w
    ELSE RaiseAll(raise(w, Head(cells)[1], Head(cells)[2]), Tail(cells))

Glider  == << <<0, 0>>, <<1, 0>>, <<2, 0>>, <<2, 1>>, <<1, 2>> >>
Blinker == << <<0, 0>>, <<0, 1>>, <<0, 2>> >>
Beacon  == << <<0, 0>>, <<0, 1>>, <<1, 0>>, <<1, 1>>,
              <<2, 2>>, <<3, 2>>, <<2, 3>>, <<3, 3>> >>

Patterns == {"Blank", "Glider", "Blinker", "Beacon"}

from(pat) ==
    CASE pat = "Blank"   -> EmptyMap
      [] pat = "Glider"  -> RaiseAll(EmptyMap, Glider)
      [] pat = "Blinker" -> RaiseAll(EmptyMap, Blinker)
      [] pat = "Beacon"  -> RaiseAll(EmptyMap, Beacon)

\* the i32 values random::<i32>() is drawn from
Draws == {I32Min, -3, -1, 0, 1, 2, I32Max}

\* a % b on i32 for b > 0: the remainder of the truncated division, which has
\* the sign of a (written so that no intermediate value leaves the i32 range)
RemI32(a, b) ==
    IF a >= 0 THEN a % b
    ELSE -((((-(a + 1)) % b) + 1) % b)

\* (size as f64).sqrt().round() as i32: the integer nearest to the square
\* root (no tie occurs, the square root of an integer is never k + 1/2)
RoundSqrt(size) ==
    CHOOSE k \in 0..size :
        /\ (2 * k + 1) * (2 * k + 1) > 4 * size
        /\ k > 0 => (2 * k - 1) * (2 * k - 1) <= 4 * size

\* the worlds after k more iterations of "for _ in 0..*size", from the
\* worlds of S
RECURSIVE RandomLoop(_, _, _)
RandomLoop(S, k, side) ==
    IF k = 0 THEN S
    ELSE RandomLoop({raise(w, RemI32(rx, side), RemI32(ry, side)) :
                        w \in S, rx \in Draws, ry \in Draws},
                    k - 1, side)

\* the worlds LifeWorld::from(&LifePattern::Random(size)) can return
fromRandom(size) == RandomLoop({EmptyMap}, size, RoundSqrt(size))

(***************************************************************************)
(* The coordinates the calls are made with: the block the tests of         *)
(* life.rs use, POSITIONS around the origin and the origin itself.         *)
(***************************************************************************)
POSITIONS == << <<0, 1>>, <<1, 0>>, <<1, 1>>, <<0, -1>>,
                <<-1, 0>>, <<-1, -1>>, <<-1, 1>>, <<1, -1>> >>

Cells == {POSITIONS[i] : i \in 1..Len(POSITIONS)} \cup {<<0, 0>>}

(***************************************************************************)
(* The state machine.                                                      *)
(***************************************************************************)
VARIABLES
    active_cells,   \* LifeWorld.active_cells
    generations,    \* LifeWorld.generations
    pattern,        \* the LifePattern the world was built from
    size,           \* the size of LifePattern::Random(size), 0 for the others
    calls,          \* history: number of raise / lower / toggle calls so far
    evolves,        \* history: number of evolve calls so far
    last,           \* history: the last call and what it found at its target
    hist,           \* history: the shape of the call sequence so far
    build,          \* "debug" (overflow checks on) or "release" (wrapping)
    overflowed,     \* history: an i32 addition of set_cell has overflowed
    panicked,       \* the thread has panicked
    state,          \* Program.state : State
    run,            \* where Program::run is: "idle" (no Program), "ready"
                    \* (built by Program::new), "input" (loop condition held,
                    \* before handle_input), "match" (after handle_input),
                    \* "ok" / "err" (returned), "panic"
    timestep_ms,    \* Program.timestep_ms
    duration_ms,    \* Program.duration_ms
    duration_steps, \* run's local duration_steps
    count,          \* run's local count
    now,            \* the monotonic clock Instant::now() reads, in ms
    timestep_start, \* run's local timestep_start
    evolved_at,     \* history: the clock reading that went with the last
                    \* world.evolve() of run, -1 before the first
    cmd_last,       \* history: the last command handled, the state it was
                    \* given in and its result
    given,          \* history: number of commands given by the State driver
    TERMINAL_ACQUIRED, \* the static AtomicBool of ui.rs
    raw_mode,          \* the terminal is in raw mode
    alternate_screen,  \* the terminal shows the alternate screen
    cursor_hidden,     \* the cursor is hidden
    screens,           \* number of Screen values alive
    term_last,         \* history: the last call on the terminal, its result
    term_calls,        \* history: number of calls on the terminal
    acquires,          \* history: number of acquire_terminal calls returning Ok
    restores,          \* history: number of release_terminal calls that ran
                       \* the restore sequence to its end
    pc                 \* where each thread is in its release_terminal call

life == <<active_cells, generations, pattern, size, calls, evolves, last, hist>>
fault == <<build, overflowed, panicked>>
prog == <<state, run, timestep_ms, duration_ms, duration_steps, count, now,
          timestep_start, evolved_at, cmd_last, given>>

term == <<TERMINAL_ACQUIRED, raw_mode, alternate_screen, cursor_hidden,
          screens, term_last, term_calls, acquires, restores, pc>>

\* the main thread, and the thread on which ctrlc runs the handler
Threads == {"main", "handler"}

\* no thread is in a release_terminal call of its own
NoThreads == [t \in Threads |-> "idle"]

vars == <<life, fault, prog, term>>

\* no call on the terminal was made
NoTerminal ==
    /\ TERMINAL_ACQUIRED = FALSE
    /\ raw_mode = FALSE
    /\ alternate_screen = FALSE
    /\ cursor_hidden = FALSE
    /\ screens = 0
    /\ term_last = [op |-> "-", result |-> "-"]
    /\ term_calls = 0
    /\ acquires = 0
    /\ restores = 0
    /\ pc = NoThreads

\* no Program exists: the world is driven by direct calls
NoProgram ==
    /\ state = "Setup"
    /\ run = "idle"
    /\ timestep_ms = 0
    /\ duration_ms = 0
    /\ duration_steps = 0
    /\ count = 0
    /\ now = 0
    /\ timestep_start = 0
    /\ evolved_at = -1
    /\ cmd_last = [cmd |-> "-", from |-> "-", ok |-> TRUE]
    /\ given = 0

Builds == {"debug", "release"}

\* what a mutator call finds at (x, y) before it acts
Found(w, x, y) ==
    IF get(w, x, y) = None THEN "absent"
    ELSE IF alive(w, x, y) THEN "alive" ELSE "dead"

\* hist.kind is "new" for a world just built by LifeWorld::new(), "toggles"
\* while every call so far was a toggle (hist.odd: the coordinates toggled an
\* odd number of times), "raised" after the single call raise(c) (hist.odd =
\* {c}), "raises" after two or more calls that were all raise (hist.odd: the
\* coordinates raised), "lowered" after raise(c); lower(c), and "other" for
\* the rest
Other == [kind |-> "other", odd |-> {}]

HistRaise(h, p) ==
    IF h.kind = "new" THEN [kind |-> "raised", odd |-> {p}]
    ELSE IF h.kind \in {"raised", "raises"}
         THEN [kind |-> "raises", odd |-> h.odd \cup {p}]
         ELSE Other

HistLower(h, p) ==
    IF h.kind = "raised" /\ h.odd = {p} THEN [kind |-> "lowered", odd |-> {}]
    ELSE Other

HistToggle(h, p) ==
    IF h.kind \in {"new", "toggles"}
    THEN [kind |-> "toggles",
          odd |-> IF p \in h.odd THEN h.odd \ {p} ELSE h.odd \cup {p}]
    ELSE Other

Init ==
    /\ pattern \in Patterns
    /\ size = 0
    /\ active_cells = from(pattern)
    /\ generations = 0
    /\ calls = 0
    /\ evolves = 0
    /\ last = [op |-> "from", found |-> "-"]
    /\ hist = IF pattern = "Blank" THEN [kind |-> "new", odd |-> {}] ELSE Other
    \* away from the i32 edges the two builds compute the same
    /\ build = "release"
    /\ overflowed = FALSE
    /\ panicked = FALSE
    /\ NoProgram
    /\ NoTerminal

Raise(x, y) ==
    /\ ~panicked
    /\ calls + evolves < MaxSteps
    /\ overflowed' = (overflowed \/ Overflowing(active_cells, x, y, TRUE))
    /\ panicked' = (build = "debug" /\ Overflowing(active_cells, x, y, TRUE))
    /\ active_cells' = IF panicked'
                       THEN set_cell_panic(active_cells, x, y, TRUE)
                       ELSE raise(active_cells, x, y)
    /\ calls' = calls + 1
    /\ last' = [op |-> "raise", found |-> Found(active_cells, x, y)]
    /\ hist' = HistRaise(hist, <<x, y>>)
    /\ UNCHANGED <<generations, pattern, size, evolves, build, prog, term>>

Lower(x, y) ==
    /\ ~panicked
    /\ calls + evolves < MaxSteps
    /\ overflowed' = (overflowed \/ Overflowing(active_cells, x, y, FALSE))
    /\ panicked' = (build = "debug" /\ Overflowing(active_cells, x, y, FALSE))
    /\ active_cells' = IF panicked'
                       THEN set_cell_panic(active_cells, x, y, FALSE)
                       ELSE lower(active_cells, x, y)
    /\ calls' = calls + 1
    /\ last' = [op |-> "lower", found |-> Found(active_cells, x, y)]
    /\ hist' = HistLower(hist, <<x, y>>)
    /\ UNCHANGED <<generations, pattern, size, evolves, build, prog, term>>

Toggle(x, y) ==
    /\ ~panicked
    /\ calls + evolves < MaxSteps
    /\ overflowed' = (overflowed \/ Overflowing(active_cells, x, y, ~alive(active_cells, x, y)))
    /\ panicked' = (build = "debug" /\ Overflowing(active_cells, x, y, ~alive(active_cells, x, y)))
    /\ active_cells' = IF panicked'
                       THEN set_cell_panic(active_cells, x, y, ~alive(active_cells, x, y))
                       ELSE toggle(active_cells, x, y)
    /\ calls' = calls + 1
    /\ last' = [op |-> "toggle", found |-> Found(active_cells, x, y)]
    /\ hist' = HistToggle(hist, <<x, y>>)
    /\ UNCHANGED <<generations, pattern, size, evolves, build, prog, term>>

\* what an evolve call finds: "removable" when a dead cell is to be born while
\* every alive neighbour of it is to die, so that in the orders applying
\* those deaths first its entry is removed before its own delta is applied
\* (and every order is explored), "-" otherwise
EvolveFinds(w) ==
    LET D == Deltas(w)
    IN  IF /\ Cardinality(D) <= MaxPerm
           /\ \E d \in D :
                 /\ d[1]
                 /\ \A n \in DOMAIN w :
                       (w[n].alive /\ n[1] - d[2][1] \in -1..1
                                   /\ n[2] - d[2][2] \in -1..1)
                           => <<FALSE, n>> \in D
        THEN "removable"
        ELSE "-"

\* no set_cell of evolve overflows: evolve is modelled for the worlds stored
\* away from the edges of the i32 range
AwayFromEdges(w) == \A p \in DOMAIN w : Wraps(p[1], p[2]) = {}

\* mutant: generations counts only the evolve calls that change a cell
Evolve_CountsChanges ==
    /\ ~panicked
    /\ calls + evolves < MaxSteps
    /\ AwayFromEdges(active_cells)
    /\ active_cells' \in evolve(active_cells)
    /\ generations' = IF Deltas(active_cells) = {} THEN generations ELSE generations + 1
    /\ evolves' = evolves + 1
    /\ last' = [op |-> "evolve", found |-> EvolveFinds(active_cells)]
    /\ hist' = Other
    /\ UNCHANGED <<pattern, size, calls, fault, prog, term>>

Evolve ==
    /\ ~panicked
    /\ calls + evolves < MaxSteps
    /\ AwayFromEdges(active_cells)
    /\ active_cells' \in evolve(active_cells)
    /\ generations' = generations + 1
    /\ evolves' = evolves + 1
    /\ last' = [op |-> "evolve", found |-> EvolveFinds(active_cells)]
    /\ hist' = Other
    /\ UNCHANGED <<pattern, size, calls, fault, prog, term>>

Next ==
    \/ \E p \in Cells : Raise(p[1], p[2])
    \/ \E p \in Cells : Lower(p[1], p[2])
    \/ \E p \in Cells : Toggle(p[1], p[2])
    \/ Evolve

Spec == Init /\ [][Next]_vars

(***************************************************************************)
(* The same calls with coordinates at the edges of the i32 range, on either *)
(* build.                                                                  *)
(***************************************************************************)
EdgeCells == {<<I32Max, 0>>, <<I32Max - 1, 0>>, <<I32Min, 0>>,
              <<0, I32Min>>, <<0, I32Max>>, <<I32Max, I32Max>>}

InitEdge ==
    /\ pattern = "Blank"
    /\ size = 0
    /\ active_cells = from(pattern)
    /\ generations = 0
    /\ calls = 0
    /\ evolves = 0
    /\ last = [op |-> "from", found |-> "-"]
    /\ hist = [kind |-> "new", odd |-> {}]
    /\ build \in Builds
    /\ overflowed = FALSE
    /\ panicked = FALSE
    /\ NoProgram
    /\ NoTerminal

NextEdge ==
    \/ \E p \in EdgeCells : Raise(p[1], p[2])
    \/ \E p \in EdgeCells : Lower(p[1], p[2])
    \/ \E p \in EdgeCells : Toggle(p[1], p[2])

SpecEdge == InitEdge /\ [][NextEdge]_vars

(***************************************************************************)
(* The worlds built from LifePattern::Random(size), and their evolution.   *)
(***************************************************************************)
InitRandom ==
    /\ pattern = "Random"
    /\ size \in 0..MaxSize
    /\ active_cells \in fromRandom(size)
    /\ generations = 0
    /\ calls = 0
    /\ evolves = 0
    /\ last = [op |-> "from", found |-> "-"]
    /\ hist = Other
    /\ build \in Builds
    /\ overflowed = FALSE
    /\ panicked = FALSE
    /\ NoProgram
    /\ NoTerminal

NextRandom == Evolve

SpecRandom == InitRandom /\ [][NextRandom]_vars

(***************************************************************************)
(* One call on a sparse or a dense world: the worlds built by raising a    *)
(* subset of the 3x3 block that has at most MaxHoles cells, or lacks at    *)
(* most MaxHoles cells (the block with all of POSITIONS raised is the world *)
(* of the tests, where (0, 0) has 8 alive neighbours).                     *)
(***************************************************************************)
DenseSets ==
    {S \in SUBSET Cells :
        Cardinality(S) <= MaxHoles \/ Cardinality(Cells \ S) <= MaxHoles}

DenseWorld(S) == ApplySeq(EmptyMap, Ascending({<<TRUE, p>> : p \in S}))

InitDense ==
    /\ pattern = "Blank"
    /\ size = 0
    /\ active_cells \in {DenseWorld(S) : S \in DenseSets}
    /\ generations = 0
    /\ calls = 0
    /\ evolves = 0
    /\ last = [op |-> "from", found |-> "-"]
    /\ hist = Other
    /\ build = "release"
    /\ overflowed = FALSE
    /\ panicked = FALSE
    /\ NoProgram
    /\ NoTerminal

NextDense ==
    \/ \E p \in Cells : calls + evolves = 0 /\ Raise(p[1], p[2])
    \/ \E p \in Cells : calls + evolves = 0 /\ Lower(p[1], p[2])
    \/ \E p \in Cells : calls + evolves = 0 /\ Toggle(p[1], p[2])
    \/ calls + evolves = 0 /\ Evolve

SpecDense == InitDense /\ [][NextDense]_vars

(***************************************************************************)
(* State::handle_command (src/src/main.rs), and a driver that gives it     *)
(* every sequence of commands.                                             *)
(***************************************************************************)
States == {"Setup", "Running", "Paused", "Done"}
Commands == {"Start", "Pause", "Resume", "Quit"}

\* mutant: Resume leads to Running from every state
handle_command_ResumeFromAny(s, c) ==
    IF (s = "Setup" /\ c = "Start") \/ c = "Resume"
    THEN [state |-> "Running", ok |-> TRUE]
    ELSE IF s = "Running" /\ c = "Pause"
    THEN [state |-> "Paused", ok |-> TRUE]
    ELSE IF (s = "Running" /\ c = "Start") \/ (s = "Paused" /\ c = "Pause")
    THEN [state |-> s, ok |-> TRUE]
    ELSE IF c = "Quit"
    THEN [state |-> "Done", ok |-> TRUE]
    ELSE [state |-> s, ok |-> FALSE]

\* mutant: Start is accepted in Paused and resumes
handle_command_StartResumes(s, c) ==
    IF (s = "Setup" /\ c = "Start") \/ (s = "Paused" /\ c \in {"Start", "Resume"})
    THEN [state |-> "Running", ok |-> TRUE]
    ELSE IF s = "Running" /\ c = "Pause"
    THEN [state |-> "Paused", ok |-> TRUE]
    ELSE IF (s = "Running" /\ c \in {"Start", "Resume"})
            \/ (s = "Paused" /\ c = "Pause")
    THEN [state |-> s, ok |-> TRUE]
    ELSE IF c = "Quit"
    THEN [state |-> "Done", ok |-> TRUE]
    ELSE [state |-> s, ok |-> FALSE]

\* the arms of the match in their order: the new state, and Ok or Err
handle_command(s, c) ==
    IF (s = "Setup" /\ c = "Start") \/ (s = "Paused" /\ c = "Resume")
    THEN [state |-> "Running", ok |-> TRUE]
    ELSE IF s = "Running" /\ c = "Pause"
    THEN [state |-> "Paused", ok |-> TRUE]
    ELSE IF (s = "Running" /\ c \in {"Start", "Resume"})
            \/ (s = "Paused" /\ c = "Pause")
    THEN [state |-> s, ok |-> TRUE]
    ELSE IF c = "Quit"
    THEN [state |-> "Done", ok |-> TRUE]
    ELSE [state |-> s, ok |-> FALSE]

InitState ==
    /\ pattern = "Blank"
    /\ size = 0
    /\ active_cells = from(pattern)
    /\ generations = 0
    /\ calls = 0
    /\ evolves = 0
    /\ last = [op |-> "from", found |-> "-"]
    /\ hist = [kind |-> "new", odd |-> {}]
    /\ build = "release"
    /\ overflowed = FALSE
    /\ panicked = FALSE
    /\ NoProgram
    /\ NoTerminal

HandleCommand(c) ==
    /\ given < MaxCmds
    /\ state' = handle_command(state, c).state
    /\ cmd_last' = [cmd |-> c, from |-> state,
                    ok |-> handle_command(state, c).ok]
    /\ given' = given + 1
    /\ UNCHANGED <<life, fault, run, timestep_ms, duration_ms, duration_steps,
                   count, now, timestep_start, evolved_at, term>>

NextState == \E c \in Commands : HandleCommand(c)

SpecState == InitState /\ [][NextState]_vars

(***************************************************************************)
(* Program::run and Program::handle_input (src/src/main.rs).  The loop of  *)
(* run is taken in two steps per iteration: handle_input, then the match   *)
(* on the state with the render.  Every step takes a time d of the clock.  *)
(* The camera that the arrow keys move is not part of the model.           *)
(***************************************************************************)
\* what event::poll / event::read deliver: no event, a key, or an io::Error;
\* "Other" stands for the arrow keys and every key without a command
Keys == {"None", "Esc", "CtrlC", "Space", "Other", "IoError"}

\* the ms a step can take
Delays == {0, 1}

\* Args.duration is an f64 of seconds; the model takes it in units of half a
\* millisecond, so that duration * 1000.0 has values halfway between two
\* integers, and draws zero and a negative value as well
Durations == -1..(2 * MaxDuration)

\* the values Args::parse can deliver
ArgsValues == [duration : Durations, timestep : 0..MaxTimestep]

\* Args::validate is Ok: the only test is "self.duration <= 0.0"
validate(args) == ~(args.duration <= 0)

\* (h / 2).round_ties_even() as u32 for h half milliseconds; the cast of a
\* negative f64 saturates at 0
RoundTiesEven(h) ==
    IF h < 0 THEN 0
    ELSE LET q == h \div 2
         IN  IF h % 2 = 0 THEN q
             ELSE IF q % 2 = 0 THEN q ELSE q + 1

\* the state after main has validated args and Program::new(args) has
\* returned Ok
InitRun ==
    /\ pattern \in Patterns
    /\ size = 0
    /\ active_cells = from(pattern)
    /\ generations = 0
    /\ calls = 0
    /\ evolves = 0
    /\ last = [op |-> "from", found |-> "-"]
    /\ hist = Other
    /\ build \in Builds
    /\ overflowed = FALSE
    /\ panicked = FALSE
    /\ state = "Setup"
    /\ run = "ready"
    /\ \E args \in {a \in ArgsValues : validate(a)} :
          /\ timestep_ms = args.timestep
          /\ duration_ms = RoundTiesEven(args.duration)
    /\ duration_steps = 0
    /\ count = 0
    /\ now = 0
    /\ timestep_start = 0
    /\ evolved_at = -1
    /\ cmd_last = [cmd |-> "-", from |-> "-", ok |-> TRUE]
    /\ given = 0
    \* let screen = Screen::new()?
    /\ TERMINAL_ACQUIRED = TRUE
    /\ raw_mode = TRUE
    /\ alternate_screen = TRUE
    /\ cursor_hidden = TRUE
    /\ screens = 1
    /\ term_last = [op |-> "new", result |-> "Ok"]
    /\ term_calls = 1
    /\ acquires = 1
    /\ restores = 0
    /\ pc = NoThreads

\* run up to the first test of the loop condition; ok: screen.clear() is Ok
RunStart(ok, d) ==
    /\ run = "ready"
    /\ now + d <= MaxTime
    /\ LET cleared == state = "Setup" /\ ok
           r       == handle_command(state, "Start")
           started == cleared /\ r.ok
           divides == started /\ timestep_ms # 0
           steps   == IF divides THEN duration_ms \div timestep_ms
                      ELSE duration_steps
       IN  /\ state' = IF cleared THEN r.state ELSE state
           /\ cmd_last' = IF cleared
                          THEN [cmd |-> "Start", from |-> state, ok |-> r.ok]
                          ELSE cmd_last
           \* duration_ms / timestep_ms: "attempt to divide by zero"
           /\ panicked' = (started /\ timestep_ms = 0)
           /\ duration_steps' = steps
           /\ count' = 0
           /\ now' = IF divides THEN now + d ELSE now
           /\ timestep_start' = IF divides THEN now + d ELSE timestep_start
           /\ run' = IF ~started THEN "err"
                     ELSE IF timestep_ms = 0 THEN "panic"
                     ELSE IF 0 < steps THEN "input" ELSE "ok"
    /\ UNCHANGED <<life, build, overflowed, timestep_ms, duration_ms,
                   evolved_at, given, term>>

\* the command handle_input gives for a key in a state, "-" for none
KeyCommand(key, s) ==
    IF key \in {"Esc", "CtrlC"} THEN "Quit"
    ELSE IF key = "Space" /\ s = "Running" THEN "Pause"
    ELSE IF key = "Space" /\ s = "Paused" THEN "Resume"
    ELSE "-"

HandleInput(key, d) ==
    /\ run = "input"
    /\ now + d <= MaxTime
    /\ LET c == KeyCommand(key, state)
           r == handle_command(state, c)
       IN  /\ state' = IF c = "-" THEN state ELSE r.state
           /\ cmd_last' = IF c = "-" THEN cmd_last
                          ELSE [cmd |-> c, from |-> state, ok |-> r.ok]
           /\ run' = IF key = "IoError" \/ (c # "-" /\ ~r.ok) THEN "err"
                     ELSE "match"
    /\ now' = now + d
    /\ UNCHANGED <<life, fault, timestep_ms, duration_ms, duration_steps,
                   count, timestep_start, evolved_at, given, term>>

\* mutant: timestep_start is not reset when a timestep has elapsed
RunStep_NoReset(ok, d) ==
    /\ run = "match"
    /\ now + d <= MaxTime
    /\ LET due == state = "Running" /\ now - timestep_start >= timestep_ms
       IN  /\ timestep_start' = timestep_start
           /\ count' = IF due THEN count + 1 ELSE count
           /\ active_cells' \in IF due THEN evolve(active_cells)
                                 ELSE {active_cells}
           /\ generations' = IF due THEN generations + 1 ELSE generations
           /\ evolves' = IF due THEN evolves + 1 ELSE evolves
           /\ evolved_at' = IF due THEN now + d ELSE evolved_at
           /\ last' = IF due
                      THEN [op |-> "evolve", found |-> EvolveFinds(active_cells)]
                      ELSE last
           /\ hist' = IF due THEN Other ELSE hist
           /\ run' = IF state = "Done" THEN "ok"
                     ELSE IF ~ok THEN "err"
                     ELSE IF count' < duration_steps THEN "input" ELSE "ok"
    /\ now' = now + d
    /\ UNCHANGED <<pattern, size, calls, fault, state, timestep_ms,
                   duration_ms, duration_steps, cmd_last, given, term>>

\* the match on the state, the render (ok: it returns Ok) and the test of
\* the loop condition.  d is the time from timestep_start.elapsed() to
\* Instant::now(), or the time of the render.
RunStep(ok, d) ==
    /\ run = "match"
    /\ now + d <= MaxTime
    /\ LET due == state = "Running" /\ now - timestep_start >= timestep_ms
       IN  /\ timestep_start' = IF due THEN now + d ELSE timestep_start
           /\ count' = IF due THEN count + 1 ELSE count
           /\ active_cells' \in IF due THEN evolve(active_cells)
                                 ELSE {active_cells}
           /\ generations' = IF due THEN generations + 1 ELSE generations
           /\ evolves' = IF due THEN evolves + 1 ELSE evolves
           /\ evolved_at' = IF due THEN now + d ELSE evolved_at
           /\ last' = IF due
                      THEN [op |-> "evolve", found |-> EvolveFinds(active_cells)]
                      ELSE last
           /\ hist' = IF due THEN Other ELSE hist
           /\ run' = IF state = "Done" THEN "ok"
                     ELSE IF ~ok THEN "err"
                     ELSE IF count' < duration_steps THEN "input" ELSE "ok"
    /\ now' = now + d
    /\ UNCHANGED <<pattern, size, calls, fault, state, timestep_ms,
                   duration_ms, duration_steps, cmd_last, given, term>>

NextRun ==
    \/ \E ok \in BOOLEAN, d \in Delays : RunStart(ok, d)
    \/ \E key \in Keys, d \in Delays : HandleInput(key, d)
    \/ \E ok \in BOOLEAN, d \in Delays : RunStep(ok, d)

SpecRun == InitRun /\ [][NextRun]_vars

(***************************************************************************)
(* The terminal lock of src/src/ui.rs: Screen::new, acquire_terminal,      *)
(* release_terminal and the Drop of Screen, called one after the other.    *)
(* A call's parameter f names the fallible i/o step of the call that       *)
(* returns an io::Error (0: none does); a failed step changes nothing.     *)
(***************************************************************************)
Terminal ==
    [acquired |-> TERMINAL_ACQUIRED, raw |-> raw_mode,
     alt |-> alternate_screen, hidden |-> cursor_hidden]

IoSteps == 0..3

\* mutant: the flag is stored without being compared
acquire_terminal_NoCompare(t, f) ==
    IF f = 1 THEN [term |-> [t EXCEPT !.acquired = TRUE], result |-> "io error"]
    ELSE IF f = 2
    THEN [term |-> [t EXCEPT !.acquired = TRUE, !.alt = TRUE],
          result |-> "io error"]
    ELSE IF f = 3
    THEN [term |-> [t EXCEPT !.acquired = TRUE, !.alt = TRUE, !.hidden = TRUE],
          result |-> "io error"]
    ELSE [term |-> [acquired |-> TRUE, raw |-> TRUE, alt |-> TRUE,
                    hidden |-> TRUE],
          result |-> "Ok"]

\* Screen::acquire_terminal: compare_exchange(false, true), then
\* EnterAlternateScreen (step 1), Hide (step 2), enable_raw_mode (step 3)
acquire_terminal(t, f) ==
    IF t.acquired THEN [term |-> t, result |-> "terminal already in use"]
    ELSE IF f = 1
    THEN [term |-> [t EXCEPT !.acquired = TRUE], result |-> "io error"]
    ELSE IF f = 2
    THEN [term |-> [t EXCEPT !.acquired = TRUE, !.alt = TRUE],
          result |-> "io error"]
    ELSE IF f = 3
    THEN [term |-> [t EXCEPT !.acquired = TRUE, !.alt = TRUE, !.hidden = TRUE],
          result |-> "io error"]
    ELSE [term |-> [acquired |-> TRUE, raw |-> TRUE, alt |-> TRUE,
                    hidden |-> TRUE],
          result |-> "Ok"]

\* mutant: the flag is not stored back
release_terminal_NoStore(t, f) ==
    IF ~t.acquired THEN [term |-> t, result |-> "Ok", restored |-> FALSE]
    ELSE IF f = 1
    THEN [term |-> t, result |-> "io error", restored |-> FALSE]
    ELSE IF f = 2
    THEN [term |-> [t EXCEPT !.raw = FALSE],
          result |-> "io error", restored |-> FALSE]
    ELSE IF f = 3
    THEN [term |-> [t EXCEPT !.raw = FALSE, !.hidden = FALSE],
          result |-> "io error", restored |-> FALSE]
    ELSE [term |-> [acquired |-> TRUE, raw |-> FALSE, alt |-> FALSE,
                    hidden |-> FALSE],
          result |-> "Ok", restored |-> TRUE]

\* Screen::release_terminal: if load(), disable_raw_mode (step 1), Show
\* (step 2), LeaveAlternateScreen (step 3), then store(false)
release_terminal(t, f) ==
    IF ~t.acquired THEN [term |-> t, result |-> "Ok", restored |-> FALSE]
    ELSE IF f = 1
    THEN [term |-> t, result |-> "io error", restored |-> FALSE]
    ELSE IF f = 2
    THEN [term |-> [t EXCEPT !.raw = FALSE],
          result |-> "io error", restored |-> FALSE]
    ELSE IF f = 3
    THEN [term |-> [t EXCEPT !.raw = FALSE, !.hidden = FALSE],
          result |-> "io error", restored |-> FALSE]
    ELSE [term |-> [acquired |-> FALSE, raw |-> FALSE, alt |-> FALSE,
                    hidden |-> FALSE],
          result |-> "Ok", restored |-> TRUE]

\* the terminal variables take the fields of t
SetTerminal(t) ==
    /\ TERMINAL_ACQUIRED' = t.acquired
    /\ raw_mode' = t.raw
    /\ alternate_screen' = t.alt
    /\ cursor_hidden' = t.hidden

InitTerm ==
    /\ pattern = "Blank"
    /\ size = 0
    /\ active_cells = from(pattern)
    /\ generations = 0
    /\ calls = 0
    /\ evolves = 0
    /\ last = [op |-> "from", found |-> "-"]
    /\ hist = [kind |-> "new", odd |-> {}]
    /\ build = "release"
    /\ overflowed = FALSE
    /\ panicked = FALSE
    /\ NoProgram
    /\ NoTerminal

\* a direct call of Screen::acquire_terminal()
AcquireTerminal(f) ==
    /\ term_calls < MaxTermCalls
    /\ LET r == acquire_terminal(Terminal, f)
       IN  /\ SetTerminal(r.term)
           /\ term_last' = [op |-> "acquire", result |-> r.result]
           /\ acquires' = IF r.result = "Ok" THEN acquires + 1 ELSE acquires
    /\ term_calls' = term_calls + 1
    /\ UNCHANGED <<life, fault, prog, screens, restores, pc>>

\* Screen::new(): acquire_terminal()?, then size()? (sized: it returns Ok),
\* then the Screen value
ScreenNew(f, sized) ==
    /\ term_calls < MaxTermCalls
    /\ screens < MaxScreens
    /\ LET r == acquire_terminal(Terminal, f)
       IN  /\ SetTerminal(r.term)
           /\ term_last' = [op |-> "new",
                            result |-> IF r.result = "Ok" /\ ~sized
                                       THEN "io error" ELSE r.result]
           /\ acquires' = IF r.result = "Ok" THEN acquires + 1 ELSE acquires
           /\ screens' = IF r.result = "Ok" /\ sized THEN screens + 1
                         ELSE screens
    /\ term_calls' = term_calls + 1
    /\ UNCHANGED <<life, fault, prog, restores, pc>>

\* a direct call of Screen::release_terminal()
ReleaseTerminal(f) ==
    /\ term_calls < MaxTermCalls
    /\ LET r == release_terminal(Terminal, f)
       IN  /\ SetTerminal(r.term)
           /\ term_last' = [op |-> "release", result |-> r.result]
           /\ restores' = IF r.restored THEN restores + 1 ELSE restores
    /\ term_calls' = term_calls + 1
    /\ UNCHANGED <<life, fault, prog, screens, acquires, pc>>

\* a Screen value is dropped: release_terminal(), an Err is only printed
DropScreen(f) ==
    /\ term_calls < MaxTermCalls
    /\ screens > 0
    /\ LET r == release_terminal(Terminal, f)
       IN  /\ SetTerminal(r.term)
           /\ term_last' = [op |-> "drop", result |-> r.result]
           /\ restores' = IF r.restored THEN restores + 1 ELSE restores
    /\ screens' = screens - 1
    /\ term_calls' = term_calls + 1
    /\ UNCHANGED <<life, fault, prog, acquires, pc>>

NextTerm ==
    \/ \E f \in IoSteps : AcquireTerminal(f)
    \/ \E f \in IoSteps, sized \in BOOLEAN : ScreenNew(f, sized)
    \/ \E f \in IoSteps : ReleaseTerminal(f)
    \/ \E f \in IoSteps : DropScreen(f)

SpecTerm == InitTerm /\ [][NextTerm]_vars

(***************************************************************************)
(* release_terminal called from two threads: the main thread, when the     *)
(* Screen of the Program is dropped, and the thread of the Ctrl-C handler  *)
(* set in Program::new, when a SIGINT arrives.  Each access of the atomic  *)
(* flag and each i/o step of release_terminal is a step of its own.  pc[t] *)
(* is "idle" (no call yet), "load", "raw", "show", "leave", "store" (the   *)
(* statement the thread executes next), "done" (the call has returned) or  *)
(* "exited" (the process has exited).                                      *)
(***************************************************************************)
\* the statements between the load and the store, and the store
Restoring == {"raw", "show", "leave", "store"}

\* the state after Program::new has returned Ok: the terminal is held and
\* the handler is set
InitRelease ==
    /\ pattern = "Blank"
    /\ size = 0
    /\ active_cells = from(pattern)
    /\ generations = 0
    /\ calls = 0
    /\ evolves = 0
    /\ last = [op |-> "from", found |-> "-"]
    /\ hist = [kind |-> "new", odd |-> {}]
    /\ build = "release"
    /\ overflowed = FALSE
    /\ panicked = FALSE
    /\ NoProgram
    /\ TERMINAL_ACQUIRED = TRUE
    /\ raw_mode = TRUE
    /\ alternate_screen = TRUE
    /\ cursor_hidden = TRUE
    /\ screens = 1
    /\ term_last = [op |-> "new", result |-> "Ok"]
    /\ term_calls = 1
    /\ acquires = 1
    /\ restores = 0
    /\ pc = NoThreads

\* the Program, and its Screen, is dropped on the main thread: drop calls
\* release_terminal
DropStart ==
    /\ pc["main"] = "idle"
    /\ screens > 0
    /\ pc' = [pc EXCEPT !["main"] = "load"]
    /\ screens' = screens - 1
    /\ term_calls' = term_calls + 1
    /\ UNCHANGED <<life, fault, prog, TERMINAL_ACQUIRED, raw_mode,
                   alternate_screen, cursor_hidden, term_last, acquires,
                   restores>>

\* a SIGINT arrives: the handler calls release_terminal
HandlerStart ==
    /\ pc["handler"] = "idle"
    /\ pc["main"] # "exited"
    /\ pc' = [pc EXCEPT !["handler"] = "load"]
    /\ term_calls' = term_calls + 1
    /\ UNCHANGED <<life, fault, prog, TERMINAL_ACQUIRED, raw_mode,
                   alternate_screen, cursor_hidden, screens, term_last,
                   acquires, restores>>

\* what term_last records when the call of thread t returns
Returned(t, result) ==
    [op |-> IF t = "main" THEN "drop" ELSE "release", result |-> result]

\* if TERMINAL_ACQUIRED.load(Ordering::SeqCst)
Load(t) ==
    /\ pc[t] = "load"
    /\ pc' = [pc EXCEPT ![t] = IF TERMINAL_ACQUIRED THEN "raw" ELSE "done"]
    /\ term_last' = IF TERMINAL_ACQUIRED THEN term_last ELSE Returned(t, "Ok")
    /\ UNCHANGED <<life, fault, prog, TERMINAL_ACQUIRED, raw_mode,
                   alternate_screen, cursor_hidden, screens, term_calls,
                   acquires, restores>>

\* disable_raw_mode()?
DisableRawMode(t, ok) ==
    /\ pc[t] = "raw"
    /\ pc' = [pc EXCEPT ![t] = IF ok THEN "show" ELSE "done"]
    /\ raw_mode' = IF ok THEN FALSE ELSE raw_mode
    /\ term_last' = IF ok THEN term_last ELSE Returned(t, "io error")
    /\ UNCHANGED <<life, fault, prog, TERMINAL_ACQUIRED, alternate_screen,
                   cursor_hidden, screens, term_calls, acquires, restores>>

\* stdout.execute(Show)?
ShowCursor(t, ok) ==
    /\ pc[t] = "show"
    /\ pc' = [pc EXCEPT ![t] = IF ok THEN "leave" ELSE "done"]
    /\ cursor_hidden' = IF ok THEN FALSE ELSE cursor_hidden
    /\ term_last' = IF ok THEN term_last ELSE Returned(t, "io error")
    /\ UNCHANGED <<life, fault, prog, TERMINAL_ACQUIRED, raw_mode,
                   alternate_screen, screens, term_calls, acquires, restores>>

\* stdout.execute(LeaveAlternateScreen)?: the last step of the restore
LeaveAlternateScreen(t, ok) ==
    /\ pc[t] = "leave"
    /\ pc' = [pc EXCEPT ![t] = IF ok THEN "store" ELSE "done"]
    /\ alternate_screen' = IF ok THEN FALSE ELSE alternate_screen
    /\ restores' = IF ok THEN restores + 1 ELSE restores
    /\ term_last' = IF ok THEN term_last ELSE Returned(t, "io error")
    /\ UNCHANGED <<life, fault, prog, TERMINAL_ACQUIRED, raw_mode,
                   cursor_hidden, screens, term_calls, acquires>>

\* TERMINAL_ACQUIRED.store(false, Ordering::SeqCst), and Ok(())
Store(t) ==
    /\ pc[t] = "store"
    /\ pc' = [pc EXCEPT ![t] = "done"]
    /\ TERMINAL_ACQUIRED' = FALSE
    /\ term_last' = Returned(t, "Ok")
    /\ UNCHANGED <<life, fault, prog, raw_mode, alternate_screen,
                   cursor_hidden, screens, term_calls, acquires, restores>>

\* the process exits and every thread stops where it is: the handler calls
\* std::process::exit(0) after its release_terminal has returned, and main
\* returns after the drop
Exit(t) ==
    /\ pc[t] = "done"
    /\ pc' = [u \in Threads |-> "exited"]
    /\ UNCHANGED <<life, fault, prog, TERMINAL_ACQUIRED, raw_mode,
                   alternate_screen, cursor_hidden, screens, term_last,
                   term_calls, acquires, restores>>

NextRelease ==
    \/ DropStart
    \/ HandlerStart
    \/ \E t \in Threads : Load(t)
    \/ \E t \in Threads, ok \in BOOLEAN : DisableRawMode(t, ok)
    \/ \E t \in Threads, ok \in BOOLEAN : ShowCursor(t, ok)
    \/ \E t \in Threads, ok \in BOOLEAN : LeaveAlternateScreen(t, ok)
    \/ \E t \in Threads : Store(t)
    \/ \E t \in Threads : Exit(t)

SpecRelease == InitRelease /\ [][NextRelease]_vars

(***************************************************************************)
(* Reference definitions: the brute-force neighbour count and Life rule.   *)
(***************************************************************************)
Moore(p) == {<<p[1] + dx, p[2] + dy>> : dx \in {-1, 0, 1}, dy \in {-1, 0, 1}} \ {p}

AliveSet(w) == {p \in DOMAIN w : w[p].alive}

TrueCount(w, p) == Cardinality(Moore(p) \cap AliveSet(w))

\* the standard rule, from a brute-force count over the alive set of w
LifeRule(w, p) ==
    \/ p \in AliveSet(w) /\ TrueCount(w, p) \in {2, 3}
    \/ p \notin AliveSet(w) /\ TrueCount(w, p) = 3

\* every coordinate that is stored in w or v or has an alive neighbour in w:
\* no other coordinate is alive, or becomes alive under the rule
Region(w, v) ==
    DOMAIN w \cup DOMAIN v \cup UNION {Moore(p) : p \in AliveSet(w)}

Grow(S) == S \cup UNION {Moore(p) : p \in S}

\* the coordinates within Chebyshev distance 3 of the calls' coordinates
Near == Grow(Grow(Grow(Cells)))

Translate(S, dx, dy) == {<<p[1] + dx, p[2] + dy>> : p \in S}

Range(s) == {s[i] : i \in 1..Len(s)}

(***************************************************************************)
(* Claims.                                                                 *)
(***************************************************************************)

\* C1: in every reachable world, every stored coordinate's num_neighbors
\* equals the number of its 8 Moore neighbours that are alive.
C1_CountsAreTrue ==
    \A p \in DOMAIN active_cells :
        active_cells[p].num_neighbors = TrueCount(active_cells, p)

\* a world after mutator calls and an evolve in which a stored cell has four
\* or more alive neighbours and another stored cell has exactly one
C1_Witness ==
    /\ calls > 0 /\ evolves > 0
    /\ \E p \in DOMAIN active_cells : active_cells[p].num_neighbors >= 4
    /\ \E p \in DOMAIN active_cells : active_cells[p].num_neighbors = 1

\* C2: every stored coordinate is alive or has num_neighbors > 0; a dead
\* cell with zero live neighbours is never stored, also after lower(x, y) on
\* a coordinate that was not stored.
C2_NoDeadZeroStored ==
    \A p \in DOMAIN active_cells :
        active_cells[p].alive \/ active_cells[p].num_neighbors > 0

\* C3: for every alive cell, all 8 Moore neighbours are stored.
C3_NeighborsStored ==
    \A p \in AliveSet(active_cells) : Moore(p) \subseteq DOMAIN active_cells

\* a world in which a cell was lowered next to a cell that is still alive
C3_Witness ==
    /\ last.op = "lower" /\ last.found = "alive"
    /\ evolves > 0
    /\ AliveSet(active_cells) # {}

\* C5: generations equals the number of evolve calls made so far, whatever
\* raise, lower and toggle calls are interleaved with them.
C5_GenerationsCountEvolves == generations = evolves

\* mutator calls and two evolve calls, the last of them on an empty world
C5_Witness ==
    /\ calls >= 1 /\ evolves >= 2
    /\ last.op = "evolve"
    /\ active_cells = EmptyMap

\* C4: one evolve() call computes the synchronous Life step: a coordinate is
\* alive afterwards iff the rule, applied to a brute-force neighbour count over
\* the alive set before the call, says so.
C4_EvolveIsLifeStep ==
    [][last'.op = "evolve" =>
          \A c \in Region(active_cells, active_cells') :
              alive(active_cells', c[1], c[2]) <=> LifeRule(active_cells, c)]_vars

\* an evolve after mutator calls that leaves at least three cells alive
C4_Witness ==
    /\ last.op = "evolve" /\ calls >= 1
    /\ Cardinality(AliveSet(active_cells)) >= 3

\* the observations the claim C6 lists, before and after a step
SameObservations ==
    /\ \A c \in DOMAIN active_cells \cup DOMAIN active_cells' \cup Near :
          get(active_cells', c[1], c[2]) = get(active_cells, c[1], c[2])
    /\ \A c \in DOMAIN active_cells \cap DOMAIN active_cells' :
          active_cells'[c].num_neighbors = active_cells[c].num_neighbors
    /\ num_alive(active_cells') = num_alive(active_cells)
    /\ generations' = generations

\* C6: raise on an alive cell, and lower on a cell that is not alive (stored
\* dead or absent), change no result of get, no stored num_neighbors, not
\* num_alive() and not generations.
C6_SameStateIsNoOp ==
    [][(\/ last'.op = "raise" /\ last'.found = "alive"
        \/ last'.op = "lower" /\ last'.found \in {"dead", "absent"})
          => SameObservations]_vars

\* C7: raise(x, y) on the empty world stores (x, y) alive, its 8 Moore
\* neighbours dead, and nothing else.
C7_RaiseOnEmpty ==
    [][\A p \in Cells :
          (active_cells = EmptyMap /\ Raise(p[1], p[2])) =>
              /\ get(active_cells', p[1], p[2]) = Some(TRUE)
              /\ \A n \in Moore(p) :
                    get(active_cells', n[1], n[2]) = Some(FALSE)
              /\ \A c \in (DOMAIN active_cells' \cup Near) \ (Moore(p) \cup {p}) :
                    get(active_cells', c[1], c[2]) = None]_vars

\* the world right after one raise on the world built by LifeWorld::new()
C7_Witness ==
    /\ hist.kind = "raised"
    /\ Cardinality(AliveSet(active_cells)) = 1

\* C8: from the empty world, raise(c) then lower(c), and any sequence of
\* toggles in which every coordinate is toggled an even number of times,
\* leave nothing stored.
C8_EvenTogglesClear ==
    (\/ hist.kind = "lowered"
     \/ hist.kind = "toggles" /\ hist.odd = {})
        => active_cells = EmptyMap

\* four toggles, every coordinate toggled an even number of times
C8_Witness ==
    /\ hist.kind = "toggles" /\ hist.odd = {}
    /\ calls = 4

\* C9 as stated: the glider's alive set after exactly 4 evolve calls is the
\* original alive set translated by (+1, +1).
C9_GliderTranslatesUp ==
    (pattern = "Glider" /\ calls = 0 /\ generations = 4) =>
        /\ AliveSet(active_cells) = Translate(Range(Glider), 1, 1)
        /\ AliveSet(active_cells) = {<<1, 1>>, <<2, 1>>, <<3, 1>>, <<3, 2>>, <<2, 3>>}

\* C9 as amended: the glider's alive set after exactly 4 evolve calls is the
\* original alive set translated by (+1, -1).
C9_GliderTranslates ==
    (pattern = "Glider" /\ calls = 0 /\ generations = 4) =>
        /\ AliveSet(active_cells) = Translate(Range(Glider), 1, -1)
        /\ AliveSet(active_cells) = {<<1, -1>>, <<2, -1>>, <<3, -1>>, <<3, 0>>, <<2, 1>>}

\* the glider after 4 evolve calls and no other call
C9_Witness ==
    /\ pattern = "Glider" /\ calls = 0 /\ generations = 4
    /\ AliveSet(active_cells) # {}

\* C10: the blinker's alive set is the original one after every 2 evolve
\* calls, and differs from it after 1.
C10_BlinkerPeriodTwo ==
    (pattern = "Blinker" /\ calls = 0) =>
        /\ generations % 2 = 0 => AliveSet(active_cells) = Range(Blinker)
        /\ generations = 1 => AliveSet(active_cells) # Range(Blinker)

\* the blinker after 2 evolve calls and no other call
C10_Witness ==
    /\ pattern = "Blinker" /\ calls = 0 /\ generations = 2
    /\ Cardinality(AliveSet(active_cells)) = 3

\* raise for every coordinate of S once, in ascending order of coordinates
RaiseAscending(S) == ApplySeq(EmptyMap, Ascending({<<TRUE, p>> : p \in S}))

\* raise for every coordinate of S once, in descending order of coordinates
RaiseDescending(S) ==
    ApplySeq(EmptyMap, Reverse(Ascending({<<TRUE, p>> : p \in S})))

\* C11: raising coordinates on the empty world, in any order and with any
\* repetitions, gives the same stored coordinates, alive flags and
\* num_neighbors as raising each distinct coordinate once in another order.
C11_RaiseIdempotentAnyOrder ==
    hist.kind \in {"raised", "raises"} =>
        /\ active_cells = RaiseAscending(hist.odd)
        /\ active_cells = RaiseDescending(hist.odd)

\* four raise calls on the empty world that name two coordinates only
C11_Witness ==
    /\ hist.kind = "raises" /\ calls = 4
    /\ Cardinality(hist.odd) = 2

\* C12: in every reachable world num_alive() is the number of coordinates c
\* with alive(c) = true, and after raising N distinct coordinates on the empty
\* world num_alive() = N.  (alive(c) is false for every c that is not stored.)
C12_NumAliveCountsAlive ==
    /\ num_alive(active_cells) =
          Cardinality({c \in DOMAIN active_cells \cup Cells :
                          alive(active_cells, c[1], c[2])})
    /\ hist.kind \in {"raised", "raises"} =>
          num_alive(active_cells) = Cardinality(hist.odd)

\* three distinct coordinates raised on the empty world by three calls
C12_Witness ==
    /\ hist.kind = "raises" /\ calls = 3
    /\ Cardinality(hist.odd) = 3
    /\ DOMAIN active_cells # AliveSet(active_cells)

\* C13: toggle(x, y) flips alive(x, y) and leaves alive(c) unchanged for
\* every other coordinate c; two consecutive toggles of the same coordinate
\* leave alive(c) unchanged for every c.  (alive(c) is true exactly for the
\* coordinates of AliveSet.)
C13_ToggleFlipsOne ==
    \* every two toggles the specification can take from a reachable world
    [](calls + evolves + 1 < MaxSteps =>
        \A p \in Cells :
            LET A   == AliveSet(active_cells)
                t   == toggle(active_cells, p[1], p[2])
                At  == AliveSet(t)
                Att == AliveSet(toggle(t, p[1], p[2]))
            IN  /\ At = IF p \in A THEN A \ {p} ELSE A \cup {p}
                /\ Att = A)

\* a toggle of an alive cell of a world with other alive cells, after an evolve
C13_Witness ==
    /\ last.op = "toggle" /\ last.found = "alive"
    /\ evolves > 0
    /\ Cardinality(AliveSet(active_cells)) >= 2

\* C20: the world evolve() produces does not depend on the order in which the
\* deltas are applied: every order gives the same stored coordinates, alive
\* flags and num_neighbors, also when a dead cell that is to be born is
\* removed by the deaths of its neighbours before its own delta is applied.
C20_EvolveOrderIndependent == Cardinality(evolve(active_cells)) = 1

\* after an evolve in which a cell was born while all its alive neighbours
\* died: in the orders that apply the deaths first its entry was removed
\* before its own delta was applied
C20_Witness ==
    /\ last = [op |-> "evolve", found |-> "removable"]
    /\ pattern = "Random" /\ size = 3 /\ evolves = 1
    /\ Cardinality(AliveSet(active_cells)) = 1

\* C14: raise, lower and toggle succeed for every pair of i32 coordinates,
\* i32::MIN and i32::MAX included: no x + dx or y + dy of set_cell
\* overflows, and no call panics.
C14_NoOverflowAtEdges == ~overflowed /\ ~panicked

\* C15: LifeWorld::from(Random(N)) raises only coordinates inside one
\* axis-aligned square of side round(sqrt(N)): the largest and the smallest
\* x of the alive cells differ by less than round(sqrt(N)), and so do the
\* largest and the smallest y.
C15_RandomInsideSquare ==
    (pattern = "Random" /\ generations = 0) =>
        \A p \in AliveSet(active_cells) : \A q \in AliveSet(active_cells) :
            /\ p[1] - q[1] < RoundSqrt(size)
            /\ p[2] - q[2] < RoundSqrt(size)

\* C17: under any sequence of commands given to State::handle_command, once
\* the state has left Setup it is never Setup again, Paused is entered only
\* from Running, and once the state is Done no command changes it.
C17_LifecycleOrder ==
    [][/\ state' = "Setup" => state = "Setup"
       /\ (state' = "Paused" /\ state # "Paused") => state = "Running"
       /\ state = "Done" => state' = "Done"]_vars

\* Done was reached, and a later Resume was refused
C17_Witness ==
    /\ state = "Done"
    /\ cmd_last = [cmd |-> "Resume", from |-> "Done", ok |-> FALSE]
    /\ given >= 4

\* C16: the run loop calls world.evolve() only while the state is Running
\* and at most once per elapsed timestep: between two consecutive evolve
\* calls at least timestep_ms of time has elapsed, and generations does not
\* change while the state is Paused or Done.
C16_EvolveOncePerTimestep ==
    [][generations' # generations =>
          /\ state = "Running" /\ state' = "Running"
          /\ generations' = generations + 1
          /\ now - timestep_start >= timestep_ms
          /\ evolved_at >= 0 => evolved_at' - evolved_at >= timestep_ms
          /\ generations' * timestep_ms <= now']_vars

\* two evolve calls of the loop with a pause and a resume before the second
C16_Witness ==
    /\ generations = 2 /\ count = 2
    /\ cmd_last = [cmd |-> "Resume", from |-> "Paused", ok |-> TRUE]
    /\ evolved_at >= 2 * timestep_ms

\* C18: while the terminal is acquired, a further Screen::new or
\* acquire_terminal fails with "terminal already in use", changes neither
\* the acquired flag nor the raw mode (nor the rest of the terminal), and
\* does not release the terminal of the Screen that holds it.
C18_SecondAcquireFails ==
    [][(/\ TERMINAL_ACQUIRED
        /\ term_calls' = term_calls + 1
        /\ term_last'.op \in {"new", "acquire"})
          => /\ term_last'.result = "terminal already in use"
             /\ UNCHANGED <<TERMINAL_ACQUIRED, raw_mode, alternate_screen,
                            cursor_hidden, screens, restores>>]_vars

\* a Screen holds the terminal and a second Screen::new has just failed
C18_Witness ==
    /\ term_last = [op |-> "new", result |-> "terminal already in use"]
    /\ screens = 1 /\ acquires = 1 /\ restores = 0
    /\ TERMINAL_ACQUIRED /\ raw_mode

C21_CountsStayInRange ==
    /\ InRange(active_cells)
    /\ ~panicked =>
          /\ \A p \in Cells : \A a \in BOOLEAN :
                SetCellInRange(active_cells, p[1], p[2], a)
          /\ EvolveInRange(active_cells)

\* a raise of a dead corner of the block has taken the count of (0, 0) from
\* 7 to 8
C21_Witness ==
    /\ last = [op |-> "raise", found |-> "dead"]
    /\ active_cells[<<0, 0>>].num_neighbors = 8

\* a lower of an alive cell has taken the count of a neighbour from 1 to 0
\* and removed it: the cell was alone, and the map is empty again
C21_WitnessDecrement ==
    /\ last = [op |-> "lower", found |-> "alive"]
    /\ active_cells = EmptyMap

\* the (state, command) pairs that are invalid
InvalidCommands ==
    {<<"Setup", "Pause">>, <<"Setup", "Resume">>, <<"Paused", "Start">>,
     <<"Done", "Start">>, <<"Done", "Pause">>, <<"Done", "Resume">>}

\* C22: handle_command returns Err for exactly the invalid (state, command)
\* pairs and then leaves the state unchanged; every other pair returns Ok,
\* and Quit moves every state to Done.
C22_ErrExactlyWhenInvalid ==
    cmd_last.cmd # "-" =>
        /\ cmd_last.ok <=> <<cmd_last.from, cmd_last.cmd>> \notin InvalidCommands
        /\ ~cmd_last.ok => state = cmd_last.from
        /\ cmd_last.cmd = "Quit" => cmd_last.ok /\ state = "Done"

\* Start was given in Paused: Err, and the state is still Paused
C22_Witness ==
    /\ cmd_last = [cmd |-> "Start", from |-> "Paused", ok |-> FALSE]
    /\ state = "Paused"

\* C23: for args accepted by Args::validate, run computes duration_ms /
\* timestep_ms with a nonzero timestep_ms and does not panic on the division.
C23_NoDivisionByZero == ~(run = "panic" /\ timestep_ms = 0)

\* run has not unwound from a panic: it has returned or can still return
RunCanReturn == ~panicked /\ run # "panic"

\* at most floor(duration_ms / timestep_ms) evolve calls are made, and a run
\* that returned Ok without a Quit has made that many
AtMostDurationSteps ==
    timestep_ms # 0 =>
        /\ evolves <= duration_ms \div timestep_ms
        /\ (run = "ok" /\ state # "Done") => evolves = duration_ms \div timestep_ms
        /\ (run \in {"input", "match"}) => evolves < duration_ms \div timestep_ms

\* after handle_input has handled a Quit, the same iteration returns Ok
\* without an evolve call
QuitReturnsAtOnce ==
    (run = "match" /\ cmd_last.cmd = "Quit" /\ cmd_last.ok)
        => (run' = "ok" /\ evolves' = evolves /\ active_cells' = active_cells)

\* C24: Program::run ends by returning (it does not unwind from a panic), it
\* makes at most floor(duration_ms / timestep_ms) evolve calls and returns
\* once that many are made, and the loop iteration that handles a Quit
\* returns Ok without another evolve call.
C24_RunReturnsWithinBudget ==
    /\ [](RunCanReturn /\ AtMostDurationSteps)
    /\ [][QuitReturnsAtOnce]_vars

\* C25: the restore sequence of release_terminal runs at most once per
\* successful acquire_terminal, and the handler thread and the main thread
\* are never both between the load that read true and the store.
C25_RestoreAtMostOnce ==
    /\ restores <= acquires
    /\ ~(pc["main"] \in Restoring /\ pc["handler"] \in Restoring)
=============================================================================
